---- MODULE Spec2Model ----
(***************************************************************************)
(* A model of tap_aptify/client.py: the SQL-type to JSON-schema mapper      *)
(* (aptifyConnector.to_jsonschema_type / hd_to_jsonschema_type), the record *)
(* post-processor (aptifyStream.post_process), the incremental read         *)
(* (aptifyStream.get_records) and the batch writer                          *)
(* (JSONLinesBatcher.get_batches).                                          *)
(*                                                                          *)
(* Conventions                                                              *)
(*  - Python's None is the empty sequence, a present value v is <<v>>.      *)
(*  - A Python call either returns or raises: [status, exc, val].           *)
(*  - Text is a sequence of one-character strings (type mapper) or of       *)
(*    ASCII codes (record values), so that building and parsing it are      *)
(*    computed, not assumed.                                                *)
(*  - A number is a canonical decimal [neg, digits, exp]: the value         *)
(*    0.d1d2..dn * 10^(exp+1) with d1 # 0 and dn # 0 (zero has no digits).  *)
(*    Python ints are exact; a float is named by the decimal whose nearest  *)
(*    double it is.                                                         *)
(***************************************************************************)
EXTENDS Integers, Sequences, FiniteSets, TLC

VARIABLES
    \* ---- type mapper (aptifyConnector) ----
    from_type,      \* the descriptor handed to to_jsonschema_type
    hd_flag,        \* config.get('hd_jsonschema_types'): None, False or True
    mapped,         \* outcome of to_jsonschema_type, or not called yet
    \* ---- post-processor (aptifyStream.post_process) ----
    properties,     \* self.schema['properties']: column -> schema type
    record,         \* the row dict, mutated in place
    pp_input,       \* the record as it was before the latest call
    pp_status,      \* "idle", "ok" or the exception the latest call raised
    pp_calls,       \* number of post_process calls made on the record
    \* ---- stream read (aptifyStream.get_records) ----
    context,        \* the partition/context argument
    replication_key,\* self.replication_key (None or the key column)
    key_type,       \* replication_key_col.type.python_type
    bookmark,       \* the starting bookmark the state/config resolves to
    ABORT_AT_RECORD_COUNT, \* self.ABORT_AT_RECORD_COUNT (None or N)
    stream_schema,  \* properties of the stream being read
    table,          \* the rows of the table, in the engine's scan order
    pc,             \* position of the generator
    exc,            \* exception that ended the generator, if any
    query,          \* the query built (None before it is built)
    conn,           \* "none", "open" or "released"
    cursor,         \* rows of the result set not fetched yet
    result_set,     \* rows conn.execute(query) returned
    emitted,        \* records yielded so far
    \* ---- batch writer (JSONLinesBatcher.get_batches) ----
    batch_records,  \* the records handed to get_batches
    batch_size,     \* self.batch_config.batch_size
    storage_prefix, \* self.batch_config.storage.prefix (None or text)
    stream_name,    \* self.stream_name
    sync_id,        \* the sync id of the call (None before it is made)
    batch_pc,       \* position of the get_batches generator
    batch_rest,     \* records the generator has not consumed yet
    files,          \* the files written, in order: [name, lines]
    manifests       \* the manifests yielded, in order

mapper_vars == <<from_type, hd_flag, mapped>>
pp_vars     == <<properties, record, pp_input, pp_status, pp_calls>>
stream_vars == <<context, replication_key, key_type, bookmark,
                 ABORT_AT_RECORD_COUNT, stream_schema, table, pc, exc, query,
                 conn, cursor, result_set, emitted>>
batch_vars  == <<batch_records, batch_size, storage_prefix, stream_name,
                 sync_id, batch_pc, batch_rest, files, manifests>>
vars        == <<mapper_vars, pp_vars, stream_vars, batch_vars>>

----------------------------------------------------------------------------
(* Python basics *)

None == <<>>
Some(v) == <<v>>

Ok(v) == [status |-> "ok", exc |-> "", val |-> v]
Raise(e) == [status |-> "raised", exc |-> e, val |-> None]

RECURSIVE Repeat(_, _)
Repeat(c, n) == IF n <= 0 THEN <<>> ELSE <<c>> \o Repeat(c, n - 1)

----------------------------------------------------------------------------
(* Numbers *)

Zero == [neg |-> FALSE, digits |-> <<>>, exp |-> 0]

RECURSIVE StripTrailingZeros(_)
StripTrailingZeros(ds) ==
    IF ds = <<>> THEN <<>>
    ELSE IF ds[Len(ds)] = 0 THEN StripTrailingZeros(SubSeq(ds, 1, Len(ds) - 1))
    ELSE ds

\* The canonical decimal of sign * 0.ds * 10^(e+1); ds may carry zeros at
\* either end.
RECURSIVE Canon(_, _, _)
Canon(neg, ds, e) ==
    IF ds = <<>> THEN Zero
    ELSE IF ds[1] = 0 THEN Canon(neg, Tail(ds), e - 1)
    ELSE [neg |-> neg, digits |-> StripTrailingZeros(ds), exp |-> e]

Negate(n) == IF n.digits = <<>> THEN n ELSE [n EXCEPT !.neg = ~n.neg]

AllNines(ds) == ds # <<>> /\ \A i \in 1..Len(ds) : ds[i] = 9

\* pow(10, precision) - 1 on Python ints: precision nines, exact.
PowTenMinusOne(precision) == Canon(FALSE, Repeat(9, precision), precision - 1)

\* A double carries 53 bits: a run of RoundUpDigits or more nines is closer to
\* the next power of ten than to any other double and rounds up to it.
RoundUpDigits == 17

\* repr() of a double switches to exponent form from 1e16 on.
ReprExponentFrom == 16

\* float(<decimal>): the nearest double.
ToFloat(n) ==
    IF AllNines(n.digits) /\ Len(n.digits) >= RoundUpDigits
    THEN [neg |-> n.neg, digits |-> <<1>>, exp |-> n.exp + 1]
    ELSE n

\* "e+" in str(f)
ReprHasExponent(f) == f.digits # <<>> /\ f.exp >= ReprExponentFrom

----------------------------------------------------------------------------
(* Number text: str(int), and float(str) *)

DigitChars == <<"0", "1", "2", "3", "4", "5", "6", "7", "8", "9">>
IsDigitChar(c) == \E d \in 0..9 : DigitChars[d + 1] = c
DigitOf(c) == CHOOSE d \in 0..9 : DigitChars[d + 1] = c

\* f"{n}" for a non-negative int
RECURSIVE IntToStr(_)
IntToStr(n) ==
    IF n < 10 THEN <<DigitChars[n + 1]>>
    ELSE IntToStr(n \div 10) \o <<DigitChars[(n % 10) + 1]>>

RECURSIVE StrToNat(_)
StrToNat(s) ==
    IF s = <<>> THEN 0
    ELSE StrToNat(SubSeq(s, 1, Len(s) - 1)) * 10 + DigitOf(s[Len(s)])

IndexOf(s, c) ==
    IF \E i \in 1..Len(s) : s[i] = c
    THEN CHOOSE i \in 1..Len(s) : s[i] = c /\ \A j \in 1..(i - 1) : s[j] # c
    ELSE 0

AllDigits(s) == \A i \in 1..Len(s) : IsDigitChar(s[i])

\* float(text) for text of the shape [-]digits[.digits][e+digits]; anything
\* else (the empty text in particular) raises ValueError.
ParseFloat(text) ==
    LET neg   == text # <<>> /\ text[1] = "-"
        body  == IF neg THEN Tail(text) ELSE text
        epos  == IndexOf(body, "e")
        mant  == IF epos = 0 THEN body ELSE SubSeq(body, 1, epos - 1)
        etxt  == IF epos = 0 THEN <<>> ELSE SubSeq(body, epos + 1, Len(body))
        eok   == epos = 0 \/ (Len(etxt) >= 2 /\ etxt[1] = "+"
                              /\ AllDigits(Tail(etxt)))
        e     == IF epos = 0 \/ ~eok THEN 0 ELSE StrToNat(Tail(etxt))
        dot   == IndexOf(mant, ".")
        ipart == IF dot = 0 THEN mant ELSE SubSeq(mant, 1, dot - 1)
        fpart == IF dot = 0 THEN <<>> ELSE SubSeq(mant, dot + 1, Len(mant))
        ds    == [i \in 1..(Len(ipart) + Len(fpart)) |->
                    DigitOf((ipart \o fpart)[i])]
    IN  IF eok /\ AllDigits(ipart) /\ AllDigits(fpart)
           /\ Len(ipart) + Len(fpart) >= 1
        THEN Ok(ToFloat(Canon(neg, ds, Len(ipart) - 1 + e)))
        ELSE Raise("ValueError")

----------------------------------------------------------------------------
(* SQL type names, spelled out so that name tests are computed *)

CHAR == <<"C", "H", "A", "R">>
NCHAR == <<"N", "C", "H", "A", "R">>
VARCHAR == <<"V", "A", "R", "C", "H", "A", "R">>
NVARCHAR == <<"N", "V", "A", "R", "C", "H", "A", "R">>
TIME == <<"T", "I", "M", "E">>
UNIQUEIDENTIFIER == <<"U", "N", "I", "Q", "U", "E", "I", "D", "E", "N", "T", "I", "F", "I", "E", "R">>
XML == <<"X", "M", "L">>
BINARY == <<"B", "I", "N", "A", "R", "Y">>
IMAGE == <<"I", "M", "A", "G", "E">>
VARBINARY == <<"V", "A", "R", "B", "I", "N", "A", "R", "Y">>
BIT == <<"B", "I", "T">>
TINYINT == <<"T", "I", "N", "Y", "I", "N", "T">>
SMALLINT == <<"S", "M", "A", "L", "L", "I", "N", "T">>
INTEGER == <<"I", "N", "T", "E", "G", "E", "R">>
BIGINT == <<"B", "I", "G", "I", "N", "T">>
NUMERIC == <<"N", "U", "M", "E", "R", "I", "C">>
DECIMAL == <<"D", "E", "C", "I", "M", "A", "L">>
SMALLMONEY == <<"S", "M", "A", "L", "L", "M", "O", "N", "E", "Y">>
MONEY == <<"M", "O", "N", "E", "Y">>
FLOAT == <<"F", "L", "O", "A", "T">>
REAL == <<"R", "E", "A", "L">>
DATETIME == <<"D", "A", "T", "E", "T", "I", "M", "E">>
DATE == <<"D", "A", "T", "E">>
TEXT == <<"T", "E", "X", "T">>
GEOGRAPHY == <<"G", "E", "O", "G", "R", "A", "P", "H", "Y">>

SupportedNames ==
    {CHAR, NCHAR, VARCHAR, NVARCHAR, TIME, UNIQUEIDENTIFIER, XML, BINARY, IMAGE,
     VARBINARY, BIT, TINYINT, SMALLINT, INTEGER, BIGINT, NUMERIC, DECIMAL,
     SMALLMONEY, MONEY, FLOAT, REAL}
OtherNames == {DATETIME, DATE, TEXT, GEOGRAPHY}
TypeNames == SupportedNames \cup OtherNames

UpperChars == <<"A", "B", "C", "D", "E", "F", "G", "H", "I", "J", "K", "L", "M", "N", "O", "P", "Q", "R", "S", "T", "U", "V", "W", "X", "Y", "Z">>
LowerChars == <<"a", "b", "c", "d", "e", "f", "g", "h", "i", "j", "k", "l", "m", "n", "o", "p", "q", "r", "s", "t", "u", "v", "w", "x", "y", "z">>

----------------------------------------------------------------------------
(* The framework's default mapper, SQLConnector.to_jsonschema_type: it     *)
(* looks for a known keyword inside the lower-cased type name, the first    *)
(* keyword of the list that occurs wins, and falls back to string.          *)

Lower(c) ==
    IF \E i \in 1..26 : UpperChars[i] = c
    THEN LowerChars[CHOOSE i \in 1..26 : UpperChars[i] = c]
    ELSE c

LowerName(name) == [i \in 1..Len(name) |-> Lower(name[i])]

\* needle in haystack
Contains(haystack, needle) ==
    \E i \in 1..(Len(haystack) - Len(needle) + 1) :
        SubSeq(haystack, i, i + Len(needle) - 1) = needle

DateTimeType == [type |-> <<"string">>, format |-> "date-time"]
DateType     == [type |-> <<"string">>, format |-> "date"]
IntegerType  == [type |-> <<"integer">>]
NumberType   == [type |-> <<"number">>]
StringType   == [type |-> <<"string">>]
BooleanType  == [type |-> <<"boolean">>]

sqltype_lookup ==
    << <<<<"t","i","m","e","s","t","a","m","p">>, DateTimeType>>,
       <<<<"d","a","t","e","t","i","m","e">>, DateTimeType>>,
       <<<<"d","a","t","e">>, DateType>>,
       <<<<"i","n","t">>, IntegerType>>,
       <<<<"n","u","m","e","r","i","c">>, NumberType>>,
       <<<<"d","e","c","i","m","a","l">>, NumberType>>,
       <<<<"d","o","u","b","l","e">>, NumberType>>,
       <<<<"f","l","o","a","t">>, NumberType>>,
       <<<<"s","t","r","i","n","g">>, StringType>>,
       <<<<"t","e","x","t">>, StringType>>,
       <<<<"c","h","a","r">>, StringType>>,
       <<<<"b","o","o","l">>, BooleanType>>,
       <<<<"v","a","r","i","a","n","t">>, StringType>> >>

default_to_jsonschema_type(ft) ==
    IF ft.form \notin {"str", "obj", "cls"} THEN Raise("ValueError")
    ELSE LET lname == LowerName(ft.name)
             hits  == {i \in 1..Len(sqltype_lookup) :
                          Contains(lname, sqltype_lookup[i][1])}
         IN  IF hits = {} THEN Ok(StringType)
             ELSE Ok(sqltype_lookup[CHOOSE i \in hits :
                                       \A j \in hits : i <= j][2])

----------------------------------------------------------------------------
(* Column type descriptors                                                   *)
(*   form "str":  a plain type-name string (no attributes)                   *)
(*   form "obj":  a TypeEngine instance; length / precision / scale are the  *)
(*                attributes its class defines                               *)
(*   form "cls":  a TypeEngine class (attributes are set by __init__, so a   *)
(*                class has none)                                            *)
(*   form "other": anything else                                             *)

Descriptor(form, name, length, precision, scale) ==
    [form |-> form, name |-> name, length |-> length,
     precision |-> precision, scale |-> scale]

LengthNames  == {CHAR, NCHAR, VARCHAR, NVARCHAR, BINARY, IMAGE, VARBINARY}
NumericNames == {NUMERIC, DECIMAL}

\* getattr(from_type, attr) succeeds
HasAttr(ft, attr) ==
    /\ ft.form = "obj"
    /\ \/ attr = "length" /\ ft.name \in LengthNames
       \/ attr \in {"precision", "scale"} /\ ft.name \in NumericNames

\* bool(x) of an optional int
Truthy(opt) == opt # None /\ opt[1] # 0

----------------------------------------------------------------------------
(* aptifyConnector.hd_to_jsonschema_type                                     *)

\* Integer literals of the mapping
IntLit(neg, ds) == Canon(neg, ds, Len(ds) - 1)
\* Float literals of the mapping: digits, and the power of ten of the first
FloatLit(neg, ds, e) == ToFloat(Canon(neg, ds, e))

TINYINT_MAX  == IntLit(FALSE, <<2,5,5>>)
SMALLINT_MIN == IntLit(TRUE, <<3,2,7,6,8>>)
SMALLINT_MAX == IntLit(FALSE, <<3,2,7,6,7>>)
INTEGER_MIN  == IntLit(TRUE, <<2,1,4,7,4,8,3,6,4,8>>)
INTEGER_MAX  == IntLit(FALSE, <<2,1,4,7,4,8,3,6,4,7>>)
BIGINT_MIN   == IntLit(TRUE, <<9,2,2,3,3,7,2,0,3,6,8,5,4,7,7,5,8,0,8>>)
BIGINT_MAX   == IntLit(FALSE, <<9,2,2,3,3,7,2,0,3,6,8,5,4,7,7,5,8,0,7>>)
SMALLMONEY_MIN == FloatLit(TRUE, <<2,1,4,7,4,8,3,6,4,8>>, 5)
SMALLMONEY_MAX == FloatLit(FALSE, <<2,1,4,7,4,8,3,6,4,7>>, 5)
MONEY_MIN    == FloatLit(TRUE, <<9,2,2,3,3,7,2,0,3,6,8,5,4,7,7,5,8,0,8>>, 14)
MONEY_MAX    == FloatLit(FALSE, <<9,2,2,3,3,7,2,0,3,6,8,5,4,7,7,5,8,0,7>>, 14)
FLOAT_MIN    == FloatLit(TRUE, <<1,7,9>>, 308)
FLOAT_MAX    == FloatLit(FALSE, <<1,7,9>>, 308)
REAL_MIN     == FloatLit(TRUE, <<3,4,0>>, 38)
REAL_MAX     == FloatLit(FALSE, <<3,4,0>>, 38)

\* for i in range(precision): if i == precision-scale: += '.'; += '9'
RECURSIVE maximum_as_number_from(_, _, _)
maximum_as_number_from(i, precision, scale) ==
    IF i >= precision THEN <<>>
    ELSE (IF i = precision - scale THEN <<".">> ELSE <<>>) \o <<"9">>
         \o maximum_as_number_from(i + 1, precision, scale)

maximum_as_number(precision, scale) ==
    maximum_as_number_from(0, precision, scale)

minimum_as_number(precision, scale) ==
    <<"-">> \o maximum_as_number(precision, scale)

\* '9.' then scale nines then e+<precision>
maximum_scientific_format(precision, scale) ==
    <<"9", ".">> \o Repeat("9", scale) \o <<"e", "+">> \o IntToStr(precision)

minimum_scientific_format(precision, scale) ==
    <<"-">> \o maximum_scientific_format(precision, scale)

\* The NUMERIC / DECIMAL branch
numeric_to_jsonschema_type(precision, scale) ==
    IF scale = 0
    THEN Ok([type |-> <<"integer">>,
             minimum |-> Negate(PowTenMinusOne(precision)),
             maximum |-> PowTenMinusOne(precision)])
    ELSE LET plain == ParseFloat(maximum_as_number(precision, scale))
         IN  IF plain.status = "raised" THEN plain
             ELSE IF ~ReprHasExponent(plain.val)
             THEN Ok([type |-> <<"number">>,
                      minimum |-> ParseFloat(
                                    minimum_as_number(precision, scale)).val,
                      maximum |-> plain.val])
             ELSE Ok([type |-> <<"number">>,
                      minimum |-> ParseFloat(
                                    minimum_scientific_format(precision,
                                                              scale)).val,
                      maximum |-> ParseFloat(
                                    maximum_scientific_format(precision,
                                                              scale)).val])

hd_to_jsonschema_type(ft) ==
    IF ft.form \notin {"str", "obj", "cls"} THEN Raise("ValueError")
    ELSE LET sql_type_name == ft.name
             fallthrough   == default_to_jsonschema_type(ft)
         IN
         IF sql_type_name \in {CHAR, NCHAR, VARCHAR, NVARCHAR}
         THEN IF ~HasAttr(ft, "length") THEN Raise("AttributeError")
              ELSE IF Truthy(ft.length)
              THEN Ok([type |-> <<"string">>, maxLength |-> ft.length[1]])
              ELSE fallthrough
         ELSE IF sql_type_name = TIME
         THEN Ok([type |-> <<"string">>, format |-> "time"])
         ELSE IF sql_type_name = UNIQUEIDENTIFIER
         THEN Ok([type |-> <<"string">>, format |-> "uuid"])
         ELSE IF sql_type_name = XML
         THEN Ok([type |-> <<"string">>,
                  contentMediaType |-> "application/xml"])
         ELSE IF sql_type_name \in {BINARY, IMAGE, VARBINARY}
         THEN IF ~HasAttr(ft, "length") THEN Raise("AttributeError")
              ELSE IF Truthy(ft.length)
              THEN Ok([type |-> <<"string">>, contentEncoding |-> "base64",
                       maxLength |-> ft.length[1]])
              ELSE Ok([type |-> <<"string">>, contentEncoding |-> "base64"])
         ELSE IF sql_type_name = BIT
         THEN Ok([type |-> <<"boolean">>])
         ELSE IF sql_type_name = TINYINT
         THEN Ok([type |-> <<"integer">>, minimum |-> Zero,
                  maximum |-> TINYINT_MAX])
         ELSE IF sql_type_name = SMALLINT
         THEN Ok([type |-> <<"integer">>, minimum |-> SMALLINT_MIN,
                  maximum |-> SMALLINT_MAX])
         ELSE IF sql_type_name = INTEGER
         THEN Ok([type |-> <<"integer">>, minimum |-> INTEGER_MIN,
                  maximum |-> INTEGER_MAX])
         ELSE IF sql_type_name = BIGINT
         THEN Ok([type |-> <<"integer">>, minimum |-> BIGINT_MIN,
                  maximum |-> BIGINT_MAX])
         ELSE IF sql_type_name \in {NUMERIC, DECIMAL}
         THEN IF ~HasAttr(ft, "precision") \/ ~HasAttr(ft, "scale")
              THEN Raise("AttributeError")
              ELSE numeric_to_jsonschema_type(ft.precision, ft.scale)
         ELSE IF sql_type_name = SMALLMONEY
         THEN Ok([type |-> <<"number">>, minimum |-> SMALLMONEY_MIN,
                  maximum |-> SMALLMONEY_MAX])
         ELSE IF sql_type_name = MONEY
         THEN Ok([type |-> <<"number">>, minimum |-> MONEY_MIN,
                  maximum |-> MONEY_MAX])
         ELSE IF sql_type_name = FLOAT
         THEN Ok([type |-> <<"number">>, minimum |-> FLOAT_MIN,
                  maximum |-> FLOAT_MAX])
         ELSE IF sql_type_name = REAL
         THEN Ok([type |-> <<"number">>, minimum |-> REAL_MIN,
                  maximum |-> REAL_MAX])
         ELSE fallthrough

\* org_to_jsonschema_type: super().to_jsonschema_type(from_type)
org_to_jsonschema_type(ft) == default_to_jsonschema_type(ft)

\* config.get('hd_jsonschema_types', False) selects the mapper
to_jsonschema_type(flag, ft) ==
    IF flag # None /\ flag[1]
    THEN hd_to_jsonschema_type(ft)
    ELSE org_to_jsonschema_type(ft)

----------------------------------------------------------------------------
(* The type-mapper specification: a descriptor and a configuration are      *)
(* drawn, and MapType applies to_jsonschema_type to them.                    *)

MaxLength    == 2
MaxPrecision == 38

Lengths == {None} \cup {Some(n) : n \in 0..MaxLength}

\* precision p with scale 0..p; precision 0 also with scales above it
PrecisionScales ==
    {<<p, s>> \in (0..MaxPrecision) \X (0..MaxPrecision) : s <= p}
      \cup {<<0, 1>>, <<0, 2>>}

Descriptors ==
    {Descriptor("str", n, None, 0, 0) : n \in TypeNames}
      \cup {Descriptor("cls", n, None, 0, 0) : n \in TypeNames}
      \cup {Descriptor("obj", n, None, 0, 0) :
               n \in TypeNames \ (LengthNames \cup NumericNames)}
      \cup {Descriptor("obj", n, l, 0, 0) : n \in LengthNames, l \in Lengths}
      \cup {Descriptor("obj", n, None, ps[1], ps[2]) :
               n \in NumericNames, ps \in PrecisionScales}
      \cup {Descriptor("other", <<>>, None, 0, 0)}

NotMapped == [status |-> "none", exc |-> "", val |-> None]

MapperIdle ==
    /\ from_type = Descriptor("other", <<>>, None, 0, 0)
    /\ hd_flag = None
    /\ mapped = NotMapped

MapperInit ==
    /\ from_type \in Descriptors
    /\ hd_flag \in {None, Some(FALSE), Some(TRUE)}
    /\ mapped = NotMapped

MapType ==
    /\ mapped.status = "none"
    /\ mapped' = to_jsonschema_type(hd_flag, from_type)
    /\ UNCHANGED <<from_type, hd_flag>>

----------------------------------------------------------------------------
(* Record values: [kind, v]                                                  *)
(*   "null"      None                    v = <<>>                            *)
(*   "date"      datetime.date           v = <<year, month, day>>            *)
(*   "datetime"  datetime.datetime       v = <<y, m, d, h, mi, s, microsec>> *)
(*   "time"      datetime.time           v = <<h, mi, s, microsec>>          *)
(*   "bytes"     bytes                   v = the bytes                       *)
(*   "str"       str                     v = the ASCII codes                 *)
(*   "int"       int                     v = <<n>>                           *)

NullV == [kind |-> "null", v |-> <<>>]
DateV(y, m, d) == [kind |-> "date", v |-> <<y, m, d>>]
DateTimeV(y, m, d, h, mi, s, us) ==
    [kind |-> "datetime", v |-> <<y, m, d, h, mi, s, us>>]
TimeV(h, mi, s, us) == [kind |-> "time", v |-> <<h, mi, s, us>>]
BytesV(bs) == [kind |-> "bytes", v |-> bs]
StrV(codes) == [kind |-> "str", v |-> codes]
IntV(n) == [kind |-> "int", v |-> <<n>>]

\* isinstance(value, datetime.date): datetime is a subclass of date, time is
\* not
IsDateInstance(value) == value.kind \in {"date", "datetime"}

\* zero-padded decimal text of n, width digits, as ASCII codes
RECURSIVE Pad(_, _)
Pad(n, width) ==
    IF width = 0 THEN <<>>
    ELSE Pad(n \div 10, width - 1) \o <<48 + (n % 10)>>

\* HH:MM:SS
ClockText(h, mi, s) == Pad(h, 2) \o <<58>> \o Pad(mi, 2) \o <<58>> \o Pad(s, 2)

\* date.isoformat() / datetime.isoformat()
isoformat(value) ==
    LET v == value.v
        day == Pad(v[1], 4) \o <<45>> \o Pad(v[2], 2) \o <<45>> \o Pad(v[3], 2)
    IN  IF value.kind = "date" THEN day
        ELSE day \o <<84>> \o ClockText(v[4], v[5], v[6])
             \o (IF v[7] # 0 THEN <<46>> \o Pad(v[7], 6) ELSE <<>>)

\* time.isoformat(timespec='seconds')
time_isoformat_seconds(value) == ClockText(value.v[1], value.v[2], value.v[3])

\* CustomJSONEncoder.default for the date/time kinds (naive datetimes are
\* taken as UTC by pendulum.instance, whose isoformat carries the offset)
encoder_default(value) ==
    IF value.kind = "datetime"
    THEN Ok(StrV(isoformat(value) \o <<43, 48, 48, 58, 48, 48>>))
    ELSE IF value.kind = "date" THEN Ok(StrV(isoformat(value)))
    ELSE IF value.kind = "time" THEN Ok(StrV(time_isoformat_seconds(value)))
    ELSE Raise("TypeError")

\* the base64 alphabet: A-Z a-z 0-9 + /
B64Char(i) ==
    IF i < 26 THEN 65 + i
    ELSE IF i < 52 THEN 97 + (i - 26)
    ELSE IF i < 62 THEN 48 + (i - 52)
    ELSE IF i = 62 THEN 43 ELSE 47

\* b64encode(bs).decode() for bytes bs
RECURSIVE b64encode(_)
b64encode(bs) ==
    IF bs = <<>> THEN <<>>
    ELSE IF Len(bs) = 1
    THEN <<B64Char(bs[1] \div 4), B64Char((bs[1] % 4) * 16), 61, 61>>
    ELSE IF Len(bs) = 2
    THEN <<B64Char(bs[1] \div 4),
           B64Char((bs[1] % 4) * 16 + bs[2] \div 16),
           B64Char((bs[2] % 16) * 4), 61>>
    ELSE <<B64Char(bs[1] \div 4),
           B64Char((bs[1] % 4) * 16 + bs[2] \div 16),
           B64Char((bs[2] % 16) * 4 + bs[3] \div 64),
           B64Char(bs[3] % 64)>> \o b64encode(SubSeq(bs, 4, Len(bs)))

----------------------------------------------------------------------------
(* aptifyStream.post_process                                                 *)

Base64Type == [type |-> <<"string">>, contentEncoding |-> "base64"]
TimeType   == [type |-> <<"string">>, format |-> "time"]

\* property_schema.get('contentEncoding') == 'base64'
DeclaresBase64(property_schema) ==
    /\ "contentEncoding" \in DOMAIN property_schema
    /\ property_schema.contentEncoding = "base64"

\* One turn of the loop body for key, on the record as mutated so far.
\* props[key] is properties.get(key): None when the schema lacks the key.
post_process_field(props, rec, key) ==
    LET value == rec[key]
        dated == IF IsDateInstance(value)
                 THEN [rec EXCEPT ![key] = StrV(isoformat(value))]
                 ELSE rec
    IN  IF value.kind = "null" THEN [status |-> "ok", rec |-> rec]
        ELSE IF props[key] = None
        THEN [status |-> "AttributeError", rec |-> dated]
        ELSE IF DeclaresBase64(props[key][1])
        THEN IF value.kind = "bytes"
             THEN [status |-> "ok",
                   rec |-> [dated EXCEPT ![key] = StrV(b64encode(value.v))]]
             ELSE [status |-> "TypeError", rec |-> dated]
        ELSE [status |-> "ok", rec |-> dated]

\* for key, value in record.items(): the keys in the dict's order; the first
\* exception ends the loop and leaves the record as mutated so far
RECURSIVE post_process_from(_, _, _, _)
post_process_from(props, rec, keys, i) ==
    IF i > Len(keys) THEN [status |-> "ok", rec |-> rec]
    ELSE LET r == post_process_field(props, rec, keys[i])
         IN  IF r.status # "ok" THEN r
             ELSE post_process_from(props, r.rec, keys, i + 1)

post_process(props, rec, keys) == post_process_from(props, rec, keys, 1)

----------------------------------------------------------------------------
(* The post-processor specification: a schema and a row are drawn, and      *)
(* PostProcess applies post_process to the record, again and again.         *)

MaxCalls == 2

Columns == <<"c1", "c2">>
ColumnSet == {Columns[i] : i \in 1..Len(Columns)}

SampleValues ==
    {NullV,
     DateV(2024, 2, 29),
     DateTimeV(2024, 2, 29, 13, 5, 9, 0),
     DateTimeV(987, 12, 1, 0, 0, 0, 250),
     TimeV(13, 5, 9, 250),
     BytesV(<<1, 2>>),
     BytesV(<<255, 254, 253, 7>>),
     StrV(<<104, 105>>),
     IntV(7)}

PropertyChoices ==
    {None, Some(StringType), Some(Base64Type), Some(DateTimeType),
     Some(TimeType)}

PostIdle ==
    /\ properties = [c \in ColumnSet |-> None]
    /\ record = [c \in ColumnSet |-> NullV]
    /\ pp_input = [c \in ColumnSet |-> NullV]
    /\ pp_status = "idle"
    /\ pp_calls = 0

PostInit ==
    /\ properties \in [ColumnSet -> PropertyChoices]
    /\ record \in [ColumnSet -> SampleValues]
    /\ pp_input = record
    /\ pp_status = "idle"
    /\ pp_calls = 0

PostProcess ==
    /\ pp_status \in {"idle", "ok"}
    /\ pp_calls < MaxCalls
    /\ LET r == post_process(properties, record, Columns)
       IN  /\ record' = r.rec
           /\ pp_status' = r.status
    /\ pp_input' = record
    /\ pp_calls' = pp_calls + 1
    /\ UNCHANGED properties

----------------------------------------------------------------------------
(* The table and the query                                                   *)

KeyColumn     == "k"
PayloadColumn == "b"
StreamColumns == <<KeyColumn, PayloadColumn>>

\* bool(value)
ValueTruthy(value) ==
    CASE value.kind = "null" -> FALSE
      [] value.kind = "int" -> value.v[1] # 0
      [] value.kind \in {"str", "bytes"} -> value.v # <<>>
      [] OTHER -> TRUE

\* a < b on the components of two values of one kind (ints, date parts,
\* character codes): the first differing component decides, a proper prefix
\* is smaller
RECURSIVE SeqLess(_, _)
SeqLess(a, b) ==
    IF b = <<>> THEN FALSE
    ELSE IF a = <<>> THEN TRUE
    ELSE IF a[1] # b[1] THEN a[1] < b[1]
    ELSE SeqLess(Tail(a), Tail(b))

ValueLess(a, b) == SeqLess(a.v, b.v)
ValueGeq(a, b) == ~ValueLess(a, b)

\* table.select() with the clauses get_records adds
Query(order_by, where_geq, limit) ==
    [order_by |-> order_by, where_geq |-> where_geq, limit |-> limit]

\* WHERE key >= start value
RECURSIVE FilterRows(_, _)
FilterRows(rows, q) ==
    IF rows = <<>> THEN <<>>
    ELSE (IF q.where_geq = None
             \/ ValueGeq(Head(rows)[KeyColumn], q.where_geq[1])
          THEN <<Head(rows)>> ELSE <<>>) \o FilterRows(Tail(rows), q)

\* the place of row in a list sorted by the key, behind its equals
RECURSIVE InsertByKey(_, _)
InsertByKey(sorted, row) ==
    IF sorted = <<>> THEN <<row>>
    ELSE IF ValueLess(row[KeyColumn], Head(sorted)[KeyColumn])
    THEN <<row>> \o sorted
    ELSE <<Head(sorted)>> \o InsertByKey(Tail(sorted), row)

\* ORDER BY key ASC: rows of equal key stay in scan order (every scan order
\* is a possible table, so every order the engine may give equals is covered)
RECURSIVE SortByKey(_)
SortByKey(rows) ==
    IF rows = <<>> THEN <<>>
    ELSE InsertByKey(SortByKey(SubSeq(rows, 1, Len(rows) - 1)),
                     rows[Len(rows)])

Min(a, b) == IF a <= b THEN a ELSE b

\* conn.execute(query): filter, then order, then cut
Execute(q, rows) ==
    LET filtered == FilterRows(rows, q)
        ordered  == IF q.order_by = None THEN filtered
                    ELSE SortByKey(filtered)
    IN  IF q.limit = None THEN ordered
        ELSE SubSeq(ordered, 1, Min(q.limit[1], Len(ordered)))

----------------------------------------------------------------------------
(* aptifyStream.get_records                                                  *)

\* A variant that takes any context that is not None for a partition.
ContextTruthy_NotNone(ctx) == ctx # None

\* if context: raise NotImplementedError
ContextTruthy(ctx) == ctx # None /\ ctx[1] # {}

\* replication_key_col.type.python_type in (datetime.datetime, datetime.date)
KeyIsTemporal(ktype) == ktype \in {"datetime", "date"}

\* the number a run of ASCII digits spells
RECURSIVE CodesToNat(_)
CodesToNat(codes) ==
    IF codes = <<>> THEN 0
    ELSE CodesToNat(SubSeq(codes, 1, Len(codes) - 1)) * 10
         + (codes[Len(codes)] - 48)

\* the datetime an ISO text YYYY-MM-DDTHH:MM:SS[.ffffff] spells
parse_datetime(codes) ==
    DateTimeV(CodesToNat(SubSeq(codes, 1, 4)), CodesToNat(SubSeq(codes, 6, 7)),
              CodesToNat(SubSeq(codes, 9, 10)),
              CodesToNat(SubSeq(codes, 12, 13)),
              CodesToNat(SubSeq(codes, 15, 16)),
              CodesToNat(SubSeq(codes, 18, 19)),
              IF Len(codes) > 19 THEN CodesToNat(SubSeq(codes, 21, 26)) ELSE 0)

\* The stream's starting bookmark bm is what the state (or the configured
\* start date) holds: None, or the JSON form of a key value.  The timestamp
\* accessor parses it, the generic accessor hands it over as it is.
get_starting_timestamp(bm) ==
    IF bm = None THEN None ELSE Some(parse_datetime(bm[1].v))
get_starting_replication_key_value(bm) == bm

\* A variant that forgets the ORDER BY clause.
build_query_unordered(rkey, ktype, bm, abort) ==
    LET start_val == IF KeyIsTemporal(ktype)
                     THEN get_starting_timestamp(bm)
                     ELSE get_starting_replication_key_value(bm)
        where_geq == IF rkey # None /\ start_val # None
                        /\ ValueTruthy(start_val[1])
                     THEN start_val ELSE None
        limit     == IF abort # None THEN Some(abort[1] + 1) ELSE None
    IN  Query(None, where_geq, limit)

\* A variant that cuts at the threshold itself, not one row past it.
build_query_limit_at_threshold(rkey, ktype, bm, abort) ==
    LET start_val == IF KeyIsTemporal(ktype)
                     THEN get_starting_timestamp(bm)
                     ELSE get_starting_replication_key_value(bm)
        where_geq == IF rkey # None /\ start_val # None
                        /\ ValueTruthy(start_val[1])
                     THEN start_val ELSE None
        limit     == IF abort # None THEN Some(abort[1]) ELSE None
    IN  Query(rkey, where_geq, limit)

\* the query get_records builds
build_query(rkey, ktype, bm, abort) ==
    LET start_val == IF KeyIsTemporal(ktype)
                     THEN get_starting_timestamp(bm)
                     ELSE get_starting_replication_key_value(bm)
        where_geq == IF rkey # None /\ start_val # None
                        /\ ValueTruthy(start_val[1])
                     THEN start_val ELSE None
        limit     == IF abort # None THEN Some(abort[1] + 1) ELSE None
    IN  Query(rkey, where_geq, limit)

\* A variant without the with block: an exception from post_process leaves
\* the connection as it is.
fetch_next_leaking(schema, rows, out) ==
    IF rows = <<>>
    THEN [pc |-> "done", exc |-> "", conn |-> "released", cursor |-> <<>>,
          emitted |-> out]
    ELSE LET r == post_process(schema, Head(rows), StreamColumns)
         IN  IF r.status # "ok"
             THEN [pc |-> "raised", exc |-> r.status, conn |-> "open",
                   cursor |-> Tail(rows), emitted |-> out]
             ELSE [pc |-> "suspended", exc |-> "", conn |-> "open",
                   cursor |-> Tail(rows), emitted |-> Append(out, r.rec)]

\* the loop: fetch a row, post-process it, yield it; an exception or the end
\* of the cursor leaves the with block, which releases the connection
fetch_next(schema, rows, out) ==
    IF rows = <<>>
    THEN [pc |-> "done", exc |-> "", conn |-> "released", cursor |-> <<>>,
          emitted |-> out]
    ELSE LET r == post_process(schema, Head(rows), StreamColumns)
         IN  IF r.status # "ok"
             THEN [pc |-> "raised", exc |-> r.status, conn |-> "released",
                   cursor |-> Tail(rows), emitted |-> out]
             ELSE [pc |-> "suspended", exc |-> "", conn |-> "open",
                   cursor |-> Tail(rows), emitted |-> Append(out, r.rec)]

\* The consumer asks the generator for its next record.
GetRecordsNext ==
    /\ pc \in {"created", "suspended"}
    /\ IF pc = "created" /\ ContextTruthy(context)
       THEN /\ pc' = "raised"
            /\ exc' = "NotImplementedError"
            /\ UNCHANGED <<query, conn, cursor, result_set, emitted>>
       ELSE LET q    == IF pc = "created"
                        THEN build_query(replication_key, key_type, bookmark,
                                         ABORT_AT_RECORD_COUNT)
                        ELSE query[1]
                rows == IF pc = "created" THEN Execute(q, table) ELSE cursor
                step == fetch_next(stream_schema, rows, emitted)
            IN  /\ query' = Some(q)
                /\ result_set' = IF pc = "created" THEN rows ELSE result_set
                /\ pc' = step.pc
                /\ exc' = step.exc
                /\ conn' = step.conn
                /\ cursor' = step.cursor
                /\ emitted' = step.emitted
    /\ UNCHANGED <<context, replication_key, key_type, bookmark,
                   ABORT_AT_RECORD_COUNT, stream_schema, table>>

\* The consumer closes (or drops) the generator: one never started just
\* ends; one suspended at the yield unwinds through the with block.
GetRecordsClose ==
    /\ pc \in {"created", "suspended"}
    /\ pc' = "closed"
    /\ conn' = IF pc = "suspended" THEN "released" ELSE conn
    /\ UNCHANGED <<context, replication_key, key_type, bookmark,
                   ABORT_AT_RECORD_COUNT, stream_schema, table, exc, query,
                   cursor, result_set, emitted>>

----------------------------------------------------------------------------
(* The stream specification: a configuration and a table are drawn, and the *)
(* consumer drives the generator get_records returns.                        *)

MaxRows  == 3
MaxAbort == 1

KeyTypes == {"int", "datetime", "str"}

KeyValues(ktype) ==
    CASE ktype = "int" -> {IntV(-1), IntV(0), IntV(1)}
      [] ktype = "datetime" ->
            {DateTimeV(2024, 1, d, 0, 0, 0, 0) : d \in 1..3}
      [] ktype = "str" -> {StrV(<<>>), StrV(<<97>>), StrV(<<97, 98>>)}

\* the JSON form of a key value, as a bookmark stores it
BookmarkForm(value) ==
    IF IsDateInstance(value) THEN StrV(isoformat(value)) ELSE value

PayloadValues == {BytesV(<<1, 2>>), StrV(<<104, 105>>)}

Rows(ktype) ==
    {[c \in {KeyColumn, PayloadColumn} |->
        IF c = KeyColumn THEN k ELSE b] :
     k \in KeyValues(ktype), b \in PayloadValues}

Tables(ktype) ==
    UNION {[1..n -> Rows(ktype)] : n \in 0..MaxRows}

KeySchema(ktype) ==
    CASE ktype = "int" -> IntegerType
      [] ktype = "datetime" -> DateTimeType
      [] ktype = "str" -> StringType

StreamIdle ==
    /\ context = None
    /\ replication_key = None
    /\ key_type = "int"
    /\ bookmark = None
    /\ ABORT_AT_RECORD_COUNT = None
    /\ stream_schema = [c \in {KeyColumn, PayloadColumn} |-> None]
    /\ table = <<>>
    /\ pc = "idle"
    /\ exc = ""
    /\ query = None
    /\ conn = "none"
    /\ cursor = <<>>
    /\ result_set = <<>>
    /\ emitted = <<>>

StreamInit ==
    /\ context \in {None, Some({}), Some({"partition"})}
    /\ replication_key \in {None, Some(KeyColumn)}
    /\ key_type \in IF replication_key = None THEN {"int"} ELSE KeyTypes
    /\ bookmark \in IF replication_key = None THEN {None}
                    ELSE {None} \cup
                         {Some(BookmarkForm(k)) : k \in KeyValues(key_type)}
    /\ ABORT_AT_RECORD_COUNT \in {None} \cup {Some(n) : n \in 0..MaxAbort}
    /\ stream_schema \in
         {[c \in {KeyColumn, PayloadColumn} |->
             IF c = KeyColumn THEN Some(KeySchema(key_type)) ELSE Some(p)] :
          p \in {Base64Type, StringType}}
    /\ table \in Tables(key_type)
    /\ pc = "created"
    /\ exc = ""
    /\ query = None
    /\ conn = "none"
    /\ cursor = <<>>
    /\ result_set = <<>>
    /\ emitted = <<>>

----------------------------------------------------------------------------
(* JSONLinesBatcher.get_batches                                              *)

\* str(n) for a non-negative int, as ASCII codes
RECURSIVE IntCodes(_)
IntCodes(n) ==
    IF n < 10 THEN <<48 + n>> ELSE IntCodes(n \div 10) \o <<48 + (n % 10)>>

TapName      == <<116, 97, 112>>                      \* "tap"
JsonGzSuffix == <<46, 106, 115, 111, 110, 46, 103, 122>>  \* ".json.gz"
StorageRoot  == <<102, 105, 108, 101, 58, 47, 47, 98>>    \* "file://b"

\* the values uuid4() may return (stand-ins for its 36-character texts)
Uuids == {<<97, 49>>, <<98, 50>>}

\* f"{self.tap_name}--{self.stream_name}-{uuid4()}"
make_sync_id(tap, stream, uuid) ==
    tap \o <<45, 45>> \o stream \o <<45>> \o uuid

\* self.batch_config.storage.prefix or ""
prefix_or_empty(prefix) == IF prefix = None THEN <<>> ELSE prefix[1]

\* A variant that counts the chunks from 0.
batch_filename_from_zero(prefix, sync, i) ==
    prefix \o sync \o <<45>> \o IntCodes(i - 1) \o JsonGzSuffix

\* f"{prefix}{sync_id}-{i}.json.gz"
batch_filename(prefix, sync, i) ==
    prefix \o sync \o <<45>> \o IntCodes(i) \o JsonGzSuffix

\* fs.geturl(filename)
geturl(filename) == StorageRoot \o <<47>> \o filename

\* (json.dumps(record, ...) + "\n").encode() for a record {"id": <int>}
json_line(rec) ==
    <<123, 34, 105, 100, 34, 58, 32>> \o IntCodes(rec.id) \o <<125, 10>>

\* the next chunk lazy_chunked_generator hands out: up to size records
next_chunk(rest, size) == SubSeq(rest, 1, Min(size, Len(rest)))

\* The consumer asks for the next manifest: the first call fixes the sync
\* id; each call takes a chunk, writes its file and yields its manifest, or
\* ends when no record is left.
GetBatchesNext ==
    /\ batch_pc \in {"created", "suspended"}
    /\ \E uuid \in Uuids :
          sync_id' = IF batch_pc = "created"
                     THEN Some(make_sync_id(TapName, stream_name, uuid))
                     ELSE sync_id
    /\ LET chunk    == next_chunk(batch_rest, batch_size)
           i        == Len(files) + 1
           filename == batch_filename(prefix_or_empty(storage_prefix),
                                      sync_id'[1], i)
       IN  IF chunk = <<>>
           THEN /\ batch_pc' = "done"
                /\ UNCHANGED <<batch_rest, files, manifests>>
           ELSE /\ batch_pc' = "suspended"
                /\ batch_rest' = SubSeq(batch_rest, Len(chunk) + 1,
                                        Len(batch_rest))
                /\ files' = Append(files,
                              [name |-> filename,
                               lines |-> [k \in 1..Len(chunk) |->
                                            json_line(chunk[k])]])
                /\ manifests' = Append(manifests, <<geturl(filename)>>)
    /\ UNCHANGED <<batch_records, batch_size, storage_prefix, stream_name>>

----------------------------------------------------------------------------
(* The batch specification: records, a batch size and a storage prefix are  *)
(* drawn, and the consumer drives the generator get_batches returns.         *)

MaxRecords   == 4
MaxBatchSize == 3
MaxRecordId  == 2

StreamNames == {<<116, 49>>, <<116, 50, 50>>}
Prefixes == {None, Some(<<>>), Some(<<112, 45>>)}

BatchRecords ==
    UNION {[1..n -> {[id |-> d] : d \in 1..MaxRecordId}] : n \in 0..MaxRecords}

BatchIdle ==
    /\ batch_records = <<>>
    /\ batch_size = 1
    /\ storage_prefix = None
    /\ stream_name = <<>>
    /\ sync_id = None
    /\ batch_pc = "idle"
    /\ batch_rest = <<>>
    /\ files = <<>>
    /\ manifests = <<>>

BatchInit ==
    /\ batch_records \in BatchRecords
    /\ batch_size \in 1..MaxBatchSize
    /\ storage_prefix \in Prefixes
    /\ stream_name \in StreamNames
    /\ sync_id = None
    /\ batch_pc = "created"
    /\ batch_rest = batch_records
    /\ files = <<>>
    /\ manifests = <<>>

----------------------------------------------------------------------------
(* Specifications *)

Init == MapperIdle /\ PostIdle /\ StreamInit /\ BatchIdle
Next ==
    \/ GetRecordsNext /\ UNCHANGED <<mapper_vars, pp_vars, batch_vars>>
    \/ GetRecordsClose /\ UNCHANGED <<mapper_vars, pp_vars, batch_vars>>
Spec == Init /\ [][Next]_vars

MapperSpecInit == MapperInit /\ PostIdle /\ StreamIdle /\ BatchIdle
MapperNext == MapType /\ UNCHANGED <<pp_vars, stream_vars, batch_vars>>
MapperSpec == MapperSpecInit /\ [][MapperNext]_vars

PostSpecInit == MapperIdle /\ PostInit /\ StreamIdle /\ BatchIdle
PostNext == PostProcess /\ UNCHANGED <<mapper_vars, stream_vars, batch_vars>>
PostSpec == PostSpecInit /\ [][PostNext]_vars

BatchSpecInit == MapperIdle /\ PostIdle /\ StreamIdle /\ BatchInit
BatchNext == GetBatchesNext /\ UNCHANGED <<mapper_vars, pp_vars, stream_vars>>
BatchSpec == BatchSpecInit /\ [][BatchNext]_vars

----------------------------------------------------------------------------
(* Properties of the stream read (specification Spec)                        *)

\* the rows the built query selects, in its order, before any cut
Qualifying ==
    Execute([query[1] EXCEPT !.limit = None], table)

KeysNonDecreasing(records) ==
    \A i \in 1..Len(records) : \A j \in i..Len(records) :
        ~ValueLess(records[j][KeyColumn], records[i][KeyColumn])

\* C1: with a replication key and a known starting bookmark, whatever its
\* value (0 and the empty string included), the read is filtered to keys
\* greater than or equal to the bookmark: no fetched row and no emitted
\* record has a key below it.
C1_NoRecordBelowBookmark ==
    (replication_key # None /\ bookmark # None /\ query # None) =>
        /\ \A i \in 1..Len(result_set) :
              ValueGeq(BookmarkForm(result_set[i][KeyColumn]), bookmark[1])
        /\ \A i \in 1..Len(emitted) :
              ValueGeq(emitted[i][KeyColumn], bookmark[1])

\* C2: with a replication key and no starting bookmark the query has no
\* filter clause (every row of the table qualifies) and is ordered ascending
\* by the key, so the records come out in non-decreasing key order.
C2_NoBookmarkOrderedUnfiltered ==
    (replication_key # None /\ bookmark = None /\ query # None) =>
        /\ query[1].where_geq = None
        /\ query[1].order_by = Some(KeyColumn)
        /\ Len(Qualifying) = Len(table)
        /\ KeysNonDecreasing(result_set)
        /\ KeysNonDecreasing(emitted)

C2_Witness ==
    /\ replication_key # None /\ bookmark = None
    /\ ABORT_AT_RECORD_COUNT = None
    /\ pc = "done"
    /\ Len(emitted) = 3
    /\ ValueLess(table[2][KeyColumn], table[1][KeyColumn])
    /\ ValueLess(table[3][KeyColumn], table[2][KeyColumn])

\* C8: a non-empty context makes get_records fail with NotImplementedError
\* before a query is built, a connection acquired or a record yielded; an
\* empty or absent context never raises that error.
C8_PartitionContextRejected ==
    /\ (context # None /\ context[1] # {}) =>
          /\ pc \in {"created", "raised", "closed"}
          /\ pc = "raised" => exc = "NotImplementedError"
          /\ query = None
          /\ conn = "none"
          /\ result_set = <<>>
          /\ emitted = <<>>
    /\ (context = None \/ context[1] = {}) => exc # "NotImplementedError"

C8_Witness ==
    /\ context = Some({"partition"})
    /\ pc = "raised"
    /\ exc = "NotImplementedError"
    /\ Len(table) = 3
    /\ conn = "none"

\* C9: with an abort threshold N the read is cut at N+1 rows: when more than
\* N+1 rows qualify, exactly the first N+1 of them in the query's order are
\* fetched and, on a read that runs to its end, produced; without a threshold
\* nothing is cut.
C9_LimitThresholdPlusOne ==
    query # None =>
        /\ ABORT_AT_RECORD_COUNT # None =>
              LET n == ABORT_AT_RECORD_COUNT[1] + 1
              IN  Len(Qualifying) > n =>
                     /\ result_set = SubSeq(Qualifying, 1, n)
                     /\ pc = "done" =>
                           /\ Len(emitted) = n
                           /\ \A i \in 1..n :
                                 emitted[i] =
                                   post_process(stream_schema, Qualifying[i],
                                                StreamColumns).rec
        /\ ABORT_AT_RECORD_COUNT = None =>
              /\ result_set = Qualifying
              /\ pc = "done" => Len(emitted) = Len(Qualifying)

C9_Witness ==
    /\ ABORT_AT_RECORD_COUNT = Some(1)
    /\ replication_key # None
    /\ pc = "done"
    /\ Len(table) = 3
    /\ Len(Qualifying) = 3
    /\ Len(emitted) = 2
    /\ ValueLess(table[3][KeyColumn], table[1][KeyColumn])

\* the generator has ended after it acquired the connection
EndedAfterAcquire ==
    /\ query # None
    /\ pc \in {"done", "raised", "closed"}

\* C11: the connection acquired for a read is released however the read
\* ends (cursor exhausted, post_process raising on a row, the consumer
\* closing the generator part-way), it is held only while the generator is
\* suspended at a yield, and no record is yielded after the release.
C11_ConnectionReleasedAtEnd ==
    /\ [](/\ EndedAfterAcquire => conn = "released"
          /\ conn = "open" => pc = "suspended"
          /\ conn = "released" => EndedAfterAcquire)
    /\ [][conn = "released" => emitted' = emitted]_vars

C11_Witness ==
    /\ pc = "raised"
    /\ exc = "TypeError"
    /\ conn = "released"
    /\ Len(emitted) = 2
    /\ Len(result_set) = 3

----------------------------------------------------------------------------
(* Properties of the type mapper (specification MapperSpec)                  *)

DetailedCall ==
    /\ hd_flag = Some(TRUE)
    /\ mapped.status # "none"

\* the row of the mapping table for a plain type name (a plain name carries
\* no length, precision or scale)
TableRow(name) ==
    CASE name \in {CHAR, NCHAR, VARCHAR, NVARCHAR} -> [type |-> <<"string">>]
      [] name = TIME -> [type |-> <<"string">>, format |-> "time"]
      [] name = UNIQUEIDENTIFIER -> [type |-> <<"string">>, format |-> "uuid"]
      [] name = XML ->
            [type |-> <<"string">>, contentMediaType |-> "application/xml"]
      [] name \in {BINARY, IMAGE, VARBINARY} ->
            [type |-> <<"string">>, contentEncoding |-> "base64"]
      [] name = BIT -> [type |-> <<"boolean">>]
      [] name = TINYINT ->
            [type |-> <<"integer">>, minimum |-> Zero, maximum |-> TINYINT_MAX]
      [] name = SMALLINT ->
            [type |-> <<"integer">>, minimum |-> SMALLINT_MIN,
             maximum |-> SMALLINT_MAX]
      [] name = INTEGER ->
            [type |-> <<"integer">>, minimum |-> INTEGER_MIN,
             maximum |-> INTEGER_MAX]
      [] name = BIGINT ->
            [type |-> <<"integer">>, minimum |-> BIGINT_MIN,
             maximum |-> BIGINT_MAX]
      [] name = SMALLMONEY ->
            [type |-> <<"number">>, minimum |-> SMALLMONEY_MIN,
             maximum |-> SMALLMONEY_MAX]
      [] name = MONEY ->
            [type |-> <<"number">>, minimum |-> MONEY_MIN,
             maximum |-> MONEY_MAX]
      [] name = FLOAT ->
            [type |-> <<"number">>, minimum |-> FLOAT_MIN,
             maximum |-> FLOAT_MAX]
      [] name = REAL ->
            [type |-> <<"number">>, minimum |-> REAL_MIN,
             maximum |-> REAL_MAX]

\* C5: in detailed mode every supported type name, passed as a plain string,
\* maps without failing to a schema type equal to its row of the mapping
\* table (NUMERIC and DECIMAL, whose row depends on precision and scale, to
\* an integer or number type).
C5_PlainNamesMapToTableRows ==
    (DetailedCall /\ from_type.form = "str"
       /\ from_type.name \in SupportedNames) =>
        /\ mapped.status = "ok"
        /\ IF from_type.name \in NumericNames
           THEN mapped.val.type \in {<<"integer">>, <<"number">>}
           ELSE mapped.val = TableRow(from_type.name)

\* the largest decimal of the type: precision nines, scale of them behind
\* the point, as the double nearest to it
LargestDecimal(precision, scale) ==
    ToFloat(Canon(FALSE, Repeat(9, precision), precision - scale - 1))

\* C6: for NUMERIC/DECIMAL with precision 1..38 and scale 1..precision the
\* bounds are (10^precision - 1) / 10^scale and its negation, whichever
\* branch (plain or scientific) produces them.
C6_DecimalBoundsBracketRange ==
    (DetailedCall /\ from_type.form = "obj"
       /\ from_type.name \in NumericNames
       /\ from_type.precision \in 1..38
       /\ from_type.scale \in 1..from_type.precision) =>
        /\ mapped.status = "ok"
        /\ mapped.val.type = <<"number">>
        /\ mapped.val.maximum =
             LargestDecimal(from_type.precision, from_type.scale)
        /\ mapped.val.minimum =
             Negate(LargestDecimal(from_type.precision, from_type.scale))

\* C7: a NUMERIC/DECIMAL descriptor with precision 0 is an error for every
\* scale: the detailed mapper raises the invalid-descriptor error (ValueError)
\* and returns no schema type.
C7_ZeroPrecisionIsAnError ==
    (DetailedCall /\ from_type.form = "obj"
       /\ from_type.name \in NumericNames
       /\ from_type.precision = 0) =>
        /\ mapped.status = "raised"
        /\ mapped.exc = "ValueError"

\* C10: without the detailed flag, to_jsonschema_type maps NUMERIC to integer
\* (scale 0) or number, MONEY and SMALLMONEY to number and BIT to boolean,
\* and gives every other type what the default mapper gives; with the flag
\* it gives the detailed mapping's result.
C10_ReducedMappingSpecialCases ==
    (mapped.status # "none" /\ from_type.form = "obj") =>
        IF hd_flag = Some(TRUE)
        THEN mapped = hd_to_jsonschema_type(from_type)
        ELSE CASE from_type.name = NUMERIC ->
                    /\ mapped.status = "ok"
                    /\ mapped.val.type =
                         IF from_type.scale = 0 THEN <<"integer">>
                         ELSE <<"number">>
               [] from_type.name \in {MONEY, SMALLMONEY} ->
                    mapped.status = "ok" /\ mapped.val.type = <<"number">>
               [] from_type.name = BIT ->
                    mapped.status = "ok" /\ mapped.val.type = <<"boolean">>
               [] OTHER -> mapped = default_to_jsonschema_type(from_type)

----------------------------------------------------------------------------
(* Properties of the post-processor (specification PostSpec)                 *)

IsDateOrTime(value) == value.kind \in {"date", "datetime", "time"}

\* C3: post_process is idempotent: a second call on the record a first call
\* returned does not fail and leaves the record as it was.
C3_PostProcessIdempotent ==
    pp_calls >= 2 => (pp_status = "ok" /\ record = pp_input)

\* C4: after post_process no field holds a native date, datetime or time:
\* each such value was replaced by its ISO-8601 text, a time by its text cut
\* to the second.
C4_NoNativeDateTimeLeft ==
    (pp_calls = 1 /\ pp_status = "ok") =>
        \A c \in ColumnSet :
            /\ ~IsDateOrTime(record[c])
            /\ IsDateInstance(pp_input[c]) =>
                  record[c] = StrV(isoformat(pp_input[c]))
            /\ pp_input[c].kind = "time" =>
                  record[c] = StrV(time_isoformat_seconds(pp_input[c]))

----------------------------------------------------------------------------
(* Properties of the batch writer (specification BatchSpec)                  *)

\* the lines of the files, in the order they were written
RECURSIVE WrittenLines(_)
WrittenLines(fs) ==
    IF fs = <<>> THEN <<>> ELSE Head(fs).lines \o WrittenLines(Tail(fs))

\* C12: get_batches writes one file per batch and yields one one-element
\* manifest per file, in order: the i-th file is named
\* <prefix><sync id>-<i>.json.gz, i counting from 1, with one sync id (which
\* embeds the stream name) for the whole call, so the names differ pairwise;
\* the records are written once each, in input order, every file but the
\* last holds exactly batch_size of them, and a call that runs to its end
\* has written ceil(n / batch_size) files.
C12_OneFilePerBatch ==
    LET n       == Len(batch_records)
        written == WrittenLines(files)
    IN  /\ Len(manifests) = Len(files)
        /\ files # <<>> =>
              /\ sync_id # None
              /\ Contains(sync_id[1], stream_name)
        /\ \A i \in 1..Len(files) :
              /\ manifests[i] = <<StorageRoot \o <<47>> \o files[i].name>>
              /\ files[i].name =
                    (IF storage_prefix = None THEN <<>> ELSE storage_prefix[1])
                    \o sync_id[1] \o <<45>> \o IntCodes(i) \o JsonGzSuffix
              /\ Len(files[i].lines) \in 1..batch_size
              /\ i < Len(files) => Len(files[i].lines) = batch_size
              /\ \A j \in 1..Len(files) :
                    i # j => files[i].name # files[j].name
        /\ Len(written) + Len(batch_rest) = n
        /\ \A k \in 1..Len(written) : written[k] = json_line(batch_records[k])
        /\ batch_pc = "done" =>
              /\ Len(written) = n
              /\ Len(files) = (n + batch_size - 1) \div batch_size

C12_Witness ==
    /\ batch_pc = "done"
    /\ Len(batch_records) = 4
    /\ batch_size = 3
    /\ Len(files) = 2
    /\ Len(files[2].lines) = 1
    /\ storage_prefix = Some(<<112, 45>>)
    /\ batch_records[1] # batch_records[2]

====
